---- MODULE Spec2Model ----
(***************************************************************************)
(* Model of op::VideoSaver (src/openpose/filestream/videoSaver.cpp): the   *)
(* constructor, write(), isOpened() and the destructor, together with the  *)
(* part of the environment they act on (the temporary image folder, the    *)
(* destination file, the external commands run through system()).          *)
(*                                                                         *)
(* op::error() throws: a failed check leaves the function at once, and     *)
(* every assignment made before it stays made.                             *)
(***************************************************************************)
EXTENDS Integers, Sequences, FiniteSets, TLC

\* ------------------------------------------------------------------ bounds

\* the number of write() calls of one session
MaxWrites == 3
\* the largest width of a frame
MaxWidth == 2
\* the largest number of frames handed to one write() call
MaxFrames == 2

\* ------------------------------------------------------- program constants

\* the fixed length of the image names: toFixedLengthString(counter, 12u)
NameLength == 12

RANDOM_TEXT == "_r8904530ijyiopf9034jiop4g90j0yh795640h38j"

\* ------------------------------------------------------------------ inputs

\* a path is the sequence of its characters
Paths ==
    { <<"v", ".", "m", "p", "4">>,
      <<"v", ".", "M", "P", "4">>,
      <<"v", ".", "a", "v", "i">> }

FpsValues == {-1, 0, 30}

\* "" is the unset --write_video_audio
AudioPaths == {"", "audio.mp4"}

\* the heights of the frames: equal or not is all that write() looks at
Heights == {1, 2}

\* a frame is <<cols, rows>>; <<0, 0>> is the empty cv::Mat
Frames == {<<0, 0>>} \cup ((1..MaxWidth) \X Heights)

FrameLists == UNION { [1..n -> Frames] : n \in 0..MaxFrames }

ExitCodes == {0, 1}

\* ----------------------------------------------------------------- helpers

RECURSIVE LastDot(_, _)
\* the index of the last "." of path at or before i, 0 if there is none
LastDot(path, i) ==
    IF i = 0 THEN 0
    ELSE IF path[i] = "." THEN i
    ELSE LastDot(path, i - 1)

\* what follows the last "." of the path ("" as <<>> when there is no ".")
getFileExtension(path) ==
    LET d == LastDot(path, Len(path))
    IN  IF d = 0 THEN <<>> ELSE SubSeq(path, d + 1, Len(path))

\* the path without its extension and without the "."
getFullFilePathNoExtension(path) ==
    LET d == LastDot(path, Len(path))
    IN  IF d = 0 THEN path ELSE SubSeq(path, 1, d - 1)

toLowerChar(c) ==
    CASE c = "M" -> "m"
      [] c = "P" -> "p"
      [] c = "A" -> "a"
      [] c = "V" -> "v"
      [] c = "I" -> "i"
      [] OTHER -> c

toLower(s) == [i \in 1..Len(s) |-> toLowerChar(s[i])]

RECURSIVE toString(_)
\* the decimal digits of n
toString(n) ==
    IF n < 10 THEN <<n>> ELSE Append(toString(n \div 10), n % 10)

\* the digits of n, zero-padded on the left to stringLength
toFixedLengthString(n, stringLength) ==
    LET s == toString(n)
    IN  [i \in 1..(stringLength - Len(s)) |-> 0] \o s

\* cv::Mat::empty()
MatEmpty(cvMat) == cvMat[1] = 0 \/ cvMat[2] = 0

RECURSIVE SumCols(_, _)
SumCols(cvMats, i) ==
    IF i = 0 THEN 0 ELSE cvMats[i][1] + SumCols(cvMats, i - 1)

\* cv::hconcat asserts that every matrix has the rows of the first
HconcatFits(cvMats) ==
    \A i \in 1..Len(cvMats) : cvMats[i][2] = cvMats[1][2]

\* the composed image: the frames side by side, or the single frame as it is
Hconcat(cvMats) ==
    IF Len(cvMats) > 1
    THEN <<SumCols(cvMats, Len(cvMats)), cvMats[1][2]>>
    ELSE cvMats[1]

\* ------------------------------------------------------------------- state

VARIABLES
    isWin32,                \* the build: _WIN32 defined
    ffmpegInstalled,        \* the host: `ffmpeg --help` ends with status 0
    phase,                  \* "new", "failed" (constructor threw), "open", "closed"
    constructError,         \* the sanity check that made the constructor throw
    mVideoSaverPath,
    mFps,
    mAddAudioFromThisVideo,
    mUseFfmpeg,
    mTempImageFolder,
    mCvSize,
    mVideoStarted,
    mImageSaverCounter,
    mVideoWriter,           \* cv::VideoWriter::isOpened() of the member
    upImageSaver,           \* upImageSaver != nullptr
    tempDir,                \* the temporary image folder exists
    images,                 \* its files: [name, size, call], name the digits
    encoded,                \* the images handed to the cv::VideoWriter
    destFile,               \* the file at mVideoSaverPath
    tempOutput,             \* the merged file of the audio step exists
    cmds,                   \* the system() calls made, in order
    logs,                   \* the log() calls made, in order
    nCalls,                 \* the write() calls made
    lastComposed,           \* the composed image of the last write() call, if any
    lastResult,             \* how the last write() call ended
    acceptedCalls,          \* the numbers of the calls that wrote a frame
    openResults             \* the openVideo() calls made: TRUE for an open writer

config == <<mVideoSaverPath, mFps, mAddAudioFromThisVideo, mUseFfmpeg, mTempImageFolder>>

session == <<mCvSize, mVideoStarted, mImageSaverCounter, mVideoWriter, upImageSaver>>

files == <<tempDir, images, encoded, destFile, tempOutput>>

history == <<nCalls, lastComposed, lastResult, acceptedCalls, openResults>>

vars == <<isWin32, ffmpegInstalled, phase, constructError, config, session, files, cmds, logs, history>>

NoFile == [video |-> "none", frames |-> 0, audio |-> FALSE]

\* no composed image: the input check failed, or cv::hconcat did
NoImage == <<0, 0>>

Init ==
    /\ isWin32 \in BOOLEAN
    /\ ffmpegInstalled \in BOOLEAN
    /\ phase = "new"
    /\ constructError = "none"
    /\ mVideoSaverPath = <<>>
    /\ mFps = 0
    /\ mAddAudioFromThisVideo = ""
    /\ mUseFfmpeg = FALSE
    /\ mTempImageFolder = <<>>
    /\ mCvSize = <<0, 0>>
    /\ mVideoStarted = FALSE
    /\ mImageSaverCounter = 0
    /\ mVideoWriter = FALSE
    /\ upImageSaver = FALSE
    /\ tempDir = FALSE
    /\ images = {}
    /\ encoded = <<>>
    /\ destFile = NoFile
    /\ tempOutput = FALSE
    /\ cmds = <<>>
    /\ logs = <<>>
    /\ nCalls = 0
    /\ lastComposed = NoImage
    /\ lastResult = "none"
    /\ acceptedCalls = <<>>
    /\ openResults = <<>>

\* ------------------------------------------------------------ construction

\* a command line, by its parts
Command(tool, src, audio, fps, out) ==
    [tool |-> tool, src |-> src, audio |-> audio, fps |-> fps, out |-> out]

ffmpegHelpCommand == Command("ffmpeg --help", <<>>, "", 0, <<>>)

UseFfmpeg(videoSaverPath) ==
    toLower(getFileExtension(videoSaverPath)) = <<"m", "p", "4">>

TempImageFolder(videoSaverPath) ==
    IF UseFfmpeg(videoSaverPath)
    THEN Append(getFullFilePathNoExtension(videoSaverPath), RANDOM_TEXT)
    ELSE <<>>

\* the sanity checks, were the rule on the audio path left out
SanityCheckMissingAudioRule(videoSaverPath, fps, addAudioFromThisVideo, win32, helpExit) ==
    IF fps <= 0 THEN "fps"
    ELSE IF win32 /\ UseFfmpeg(videoSaverPath) THEN "win32"
    ELSE IF UseFfmpeg(videoSaverPath) /\ helpExit # 0 THEN "ffmpegMissing"
    ELSE "none"

\* the first sanity check of the constructor that fails, "none" if none does;
\* helpExit is the exit status of `ffmpeg --help`
SanityCheck(videoSaverPath, fps, addAudioFromThisVideo, win32, helpExit) ==
    IF fps <= 0 THEN "fps"
    ELSE IF win32 /\ UseFfmpeg(videoSaverPath) THEN "win32"
    ELSE IF UseFfmpeg(videoSaverPath) /\ helpExit # 0 THEN "ffmpegMissing"
    ELSE IF addAudioFromThisVideo # "" /\ ~UseFfmpeg(videoSaverPath) THEN "audioNotMp4"
    ELSE "none"

\* `ffmpeg --help`, were it run for every destination
HelpIsRunForAnyPath(videoSaverPath, fps, win32) == fps > 0

\* `ffmpeg --help` is run only when the checks before it passed and the
\* destination is an mp4
HelpIsRun(videoSaverPath, fps, win32) ==
    /\ fps > 0
    /\ ~(win32 /\ UseFfmpeg(videoSaverPath))
    /\ UseFfmpeg(videoSaverPath)

\* the exit status of system("ffmpeg --help")
HelpExit == IF ffmpegInstalled THEN 0 ELSE 1

Construct ==
    /\ phase = "new"
    /\ \E videoSaverPath \in Paths, fps \in FpsValues,
          addAudioFromThisVideo \in AudioPaths :
        LET helpExit == HelpExit
            err == SanityCheck(videoSaverPath, fps, addAudioFromThisVideo,
                               isWin32, helpExit)
        IN  /\ mVideoSaverPath' = videoSaverPath
            /\ mFps' = fps
            /\ mAddAudioFromThisVideo' = addAudioFromThisVideo
            /\ mUseFfmpeg' = UseFfmpeg(videoSaverPath)
            /\ mTempImageFolder' = TempImageFolder(videoSaverPath)
            /\ cmds' = IF HelpIsRun(videoSaverPath, fps, isWin32)
                       THEN Append(cmds, [command |-> ffmpegHelpCommand,
                                          exit |-> helpExit, read |-> 0])
                       ELSE cmds
            /\ constructError' = err
            /\ phase' = IF err = "none" THEN "open" ELSE "failed"
    /\ UNCHANGED <<isWin32, ffmpegInstalled, session, files, logs, history>>

\* ------------------------------------------------------------------- write

\* isOpened(), were the FFmpeg branch left out
IsOpenedOfWriterOnly(useFfmpeg, imageSaver, videoWriter) == videoWriter

\* VideoSaver::isOpened() on the given members
IsOpenedOf(useFfmpeg, imageSaver, videoWriter) ==
    IF useFfmpeg THEN imageSaver ELSE videoWriter

isOpened == IsOpenedOf(mUseFfmpeg, upImageSaver, mVideoWriter)

\* the size recorded by the first call: the frames are taken to be as wide as
\* the first
FirstSize(cvMats) == <<Len(cvMats) * cvMats[1][1], cvMats[1][2]>>

\* the resolution check, were the rows left out of it
SizeDiffersWidthOnly(cvSize, cvOutputData) == cvSize[1] # cvOutputData[1]

\* the resolution check on the composed image
SizeDiffers(cvSize, cvOutputData) ==
    cvSize[1] # cvOutputData[1] \/ cvSize[2] # cvOutputData[2]

\* the first sanity check of write(): "ok" when the frames can be looked at
InputCheck(cvMats) ==
    IF Len(cvMats) = 0 THEN "emptyList"
    ELSE IF \E i \in 1..Len(cvMats) : MatEmpty(cvMats[i]) THEN "emptyFrame"
    ELSE "ok"

\* the ImageSaver, were it made for every destination
MakesImageSaverAlways(firstCall, useFfmpeg) == firstCall

\* the first call makes the ImageSaver (and with it the folder) for an mp4
MakesImageSaver(firstCall, useFfmpeg) == firstCall /\ useFfmpeg

\* openVideo(), were it called for every destination
CallsOpenVideoAnyStrategy(firstCall, useFfmpeg) == firstCall

\* openVideo(), were it called by every write
CallsOpenVideoEveryCall(firstCall, useFfmpeg) == ~useFfmpeg

\* the first call opens the cv::VideoWriter otherwise
CallsOpenVideo(firstCall, useFfmpeg) == firstCall /\ ~useFfmpeg

\* how the call ends once the input check has passed; opens: the
\* cv::VideoWriter of openVideo() reports open
Outcome(cvMats, cvSize, firstCall, opens) ==
    IF CallsOpenVideo(firstCall, mUseFfmpeg) /\ ~opens THEN "openError"
    ELSE IF ~IsOpenedOf(mUseFfmpeg,
                        upImageSaver \/ MakesImageSaver(firstCall, mUseFfmpeg),
                        mVideoWriter \/ (CallsOpenVideo(firstCall, mUseFfmpeg) /\ opens))
         THEN "notOpened"
    ELSE IF Len(cvMats) > 1 /\ ~HconcatFits(cvMats) THEN "hconcatError"
    ELSE IF SizeDiffers(cvSize, Hconcat(cvMats)) THEN "sizeMismatch"
    ELSE "ok"

\* the counter, were the increment left out
NextCounterStuck(counter) == counter

NextCounter(counter) == counter + 1

\* ImageSaver::saveImages: the file of that name is written (anew if it is there)
SaveImage(dir, name, image) ==
    {f \in dir : f.name # name} \cup {[name |-> name, size |-> image, call |-> nCalls + 1]}

WriteMats(cvMats) ==
    /\ phase = "open"
    /\ nCalls < MaxWrites
    /\ nCalls' = nCalls + 1
    /\ lastComposed' = IF InputCheck(cvMats) = "ok" /\ HconcatFits(cvMats)
                       THEN Hconcat(cvMats)
                       ELSE NoImage
    /\ UNCHANGED <<isWin32, ffmpegInstalled, phase, constructError, config, tempOutput, cmds>>
    /\ IF InputCheck(cvMats) # "ok"
       THEN /\ lastResult' = InputCheck(cvMats)
            /\ UNCHANGED <<session, tempDir, images, encoded, destFile, logs, acceptedCalls,
                           openResults>>
       ELSE \E opens \in (IF CallsOpenVideo(~mVideoStarted, mUseFfmpeg) THEN BOOLEAN ELSE {TRUE}) :
            LET firstCall == ~mVideoStarted
                cvSize == IF firstCall THEN FirstSize(cvMats) ELSE mCvSize
                result == Outcome(cvMats, cvSize, firstCall, opens)
                cvOutputData == Hconcat(cvMats)
                makesSaver == MakesImageSaver(firstCall, mUseFfmpeg)
                callsOpen == CallsOpenVideo(firstCall, mUseFfmpeg)
                opened == callsOpen /\ opens
            IN  /\ lastResult' = result
                /\ mVideoStarted' = TRUE
                /\ mCvSize' = cvSize
                /\ upImageSaver' = (upImageSaver \/ makesSaver)
                /\ tempDir' = (tempDir \/ makesSaver)
                /\ openResults' = IF callsOpen THEN Append(openResults, opens) ELSE openResults
                /\ logs' = IF makesSaver
                           THEN Append(logs, [msg |-> "Temporarily saving video frames as JPG images in",
                                              command |-> Command("", mTempImageFolder, "", 0, <<>>),
                                              code |-> 0])
                           ELSE logs
                /\ mVideoWriter' = (mVideoWriter \/ opened)
                /\ IF result = "ok" /\ mUseFfmpeg
                   THEN /\ images' = SaveImage(images,
                                        toFixedLengthString(mImageSaverCounter, NameLength),
                                        cvOutputData)
                        /\ mImageSaverCounter' = NextCounter(mImageSaverCounter)
                   ELSE UNCHANGED <<images, mImageSaverCounter>>
                /\ IF result = "ok" /\ ~mUseFfmpeg
                   THEN /\ encoded' = Append(encoded, [size |-> cvOutputData, call |-> nCalls + 1])
                        /\ destFile' = [video |-> "encoder", frames |-> Len(encoded) + 1,
                                        audio |-> FALSE]
                   ELSE /\ encoded' = encoded
                        /\ destFile' = IF opened
                                       THEN [video |-> "encoder", frames |-> 0, audio |-> FALSE]
                                       ELSE destFile
                /\ acceptedCalls' = IF result = "ok"
                                    THEN Append(acceptedCalls, nCalls + 1)
                                    ELSE acceptedCalls

\* write(const std::vector<cv::Mat>&)
Write == \E cvMats \in FrameLists : WriteMats(cvMats)

\* write(const cv::Mat&): the list of that one frame
WriteOne == \E cvMat \in Frames : WriteMats(<<cvMat>>)

\* ---------------------------------------------------------------- teardown

\* the width of the numbers in the pattern the mux command reads: %12d
PatternLength == 12

imageToVideoCommand ==
    Command("ffmpeg -y -i %12d_rendered.jpg -c:v libx264 -framerate -pix_fmt yuv420p",
            mTempImageFolder, "", mFps, mVideoSaverPath)

removeCommand == Command("rm -rf", mTempImageFolder, "", 0, <<>>)

tempOutputPath == mVideoSaverPath \o <<RANDOM_TEXT, ".", "m", "p", "4">>

audioCommand ==
    Command("ffmpeg -y -i -i -codec copy -shortest",
            mVideoSaverPath, mAddAudioFromThisVideo, 0, tempOutputPath)

moveCommand == Command("mv", tempOutputPath, "", 0, mVideoSaverPath)

RECURSIVE ReadCountUnpadded(_, _)
\* the images read, were the pattern %d: numbers without the leading zeros
ReadCountUnpadded(dir, k) ==
    IF \E f \in dir : f.name = toString(k)
    THEN 1 + ReadCountUnpadded({f \in dir : f.name # toString(k)}, k + 1)
    ELSE 0

RECURSIVE ReadCount(_, _)
\* the images the mux command reads: the numbers from k on, as far as each is
\* there under its fixed-length name
ReadCount(dir, k) ==
    IF \E f \in dir : f.name = toFixedLengthString(k, PatternLength)
    THEN 1 + ReadCount({f \in dir : f.name # toFixedLengthString(k, PatternLength)}, k + 1)
    ELSE 0

\* the mux command can end well only if it finds an image to read
MuxExits == IF tempDir /\ ReadCount(images, 0) > 0 THEN ExitCodes ELSE ExitCodes \ {0}

\* the audio command can end well only if there is a video to read
AudioExits(video) == IF video.video # "none" THEN ExitCodes ELSE ExitCodes \ {0}

\* codeAnswer, were the status of the removal not assigned to it
CodeAnswerOfMux(removes, muxExit, rmExit) == muxExit

\* codeAnswer at the sanity check: the status of the mux, overwritten by that
\* of the removal when the removal is run
CodeAnswer(removes, muxExit, rmExit) == IF removes THEN rmExit ELSE muxExit

\* the removal, were it not guarded by the status of the mux
RunsRemoveAlways(codeAnswer) == TRUE

\* the temporary images are removed after a mux that ended well
RunsRemove(codeAnswer) == codeAnswer = 0

\* the sanity check, were it left out
ReportsVideoNever(codeAnswer) == FALSE

\* the sanity check after the mux and the removal
ReportsVideo(codeAnswer) == codeAnswer # 0

\* the audio step depends on the audio path alone
RunsAudio(addAudioFromThisVideo, codeAnswer) == addAudioFromThisVideo # ""

\* the move, were it not guarded by the status of the audio command
RunsMoveAlways(codeAnswer) == TRUE

\* the move, were it left out
RunsMoveNever(codeAnswer) == FALSE

\* the merged file is moved after an audio command that ended well
RunsMove(codeAnswer) == codeAnswer = 0

Ran(command, exit, read) == [command |-> command, exit |-> exit, read |-> read]

Logged(msg, command, code) == [msg |-> msg, command |-> command, code |-> code]

NoCommand == Command("", <<>>, "", 0, <<>>)

Teardown ==
    /\ phase = "open"
    /\ phase' = "closed"
    /\ UNCHANGED <<isWin32, ffmpegInstalled, constructError, config, session, encoded, history>>
    /\ IF ~mUseFfmpeg
       THEN UNCHANGED <<tempDir, images, destFile, tempOutput, cmds, logs>>
       ELSE \E muxExit \in MuxExits, rmExit \in ExitCodes, left \in {images, {}},
               mvExit \in ExitCodes :
            LET read == ReadCount(images, 0)
                removes == RunsRemove(muxExit)
                codeAnswer == CodeAnswer(removes, muxExit, rmExit)
                video == IF muxExit = 0
                         THEN [video |-> "muxed", frames |-> read, audio |-> FALSE]
                         ELSE destFile
                audio == RunsAudio(mAddAudioFromThisVideo, codeAnswer)
            IN  \E audioExit \in AudioExits(video) :
                LET moves == audio /\ RunsMove(audioExit)
                    audioAnswer == IF moves THEN mvExit ELSE audioExit
                IN  /\ removes /\ rmExit = 0 => left = {}
                    /\ ~removes => (left = images /\ rmExit = 0)
                    /\ ~audio => audioExit = 1
                    /\ ~moves => mvExit = 0
                    /\ tempDir' = (tempDir /\ ~(removes /\ rmExit = 0))
                    /\ images' = left
                    /\ destFile' = IF moves /\ mvExit = 0
                                   THEN [video EXCEPT !.audio = TRUE]
                                   ELSE video
                    /\ tempOutput' = (audio /\ audioExit = 0 /\ ~(moves /\ mvExit = 0))
                    /\ cmds' = cmds
                         \o <<Ran(imageToVideoCommand, muxExit, read)>>
                         \o (IF removes THEN <<Ran(removeCommand, rmExit, 0)>> ELSE <<>>)
                         \o (IF audio THEN <<Ran(audioCommand, audioExit, 0)>> ELSE <<>>)
                         \o (IF moves THEN <<Ran(moveCommand, mvExit, 0)>> ELSE <<>>)
                    /\ logs' = logs
                         \o <<Logged("JPG images temporarily generated in", NoCommand, 0),
                              Logged("Creating MP4 video out of JPG images by running",
                                     imageToVideoCommand, 0)>>
                         \o (IF removes
                             THEN <<Logged("Video saved and temporary image folder removed.",
                                           NoCommand, 0)>>
                             ELSE <<>>)
                         \o (IF ReportsVideo(codeAnswer)
                             THEN <<Logged("Video could not be saved", imageToVideoCommand,
                                           codeAnswer)>>
                             ELSE <<>>)
                         \o (IF audio
                             THEN <<Logged("Adding audio to video by running", audioCommand, 0)>>
                             ELSE <<>>)
                         \o (IF audio /\ audioAnswer # 0
                             THEN <<Logged("Video could not be saved with audio", audioCommand,
                                           audioAnswer)>>
                             ELSE <<>>)

\* ------------------------------------------------------------ specification

Next == Construct \/ Write \/ WriteOne \/ Teardown

Spec == Init /\ [][Next]_vars

\* ------------------------------------------------------------------ claims

\* a step of write()
WriteStep == phase = "open" /\ nCalls' = nCalls + 1

\* the exit status of the command, -1 if it was not run
ExitOf(command) ==
    IF \E i \in 1..Len(cmds) : cmds[i].command = command
    THEN cmds[CHOOSE i \in 1..Len(cmds) : cmds[i].command = command].exit
    ELSE -1

WasRun(command) == ExitOf(command) # -1

\* the report of the failed mux: its message with the text of the mux command
VideoReported ==
    \E i \in 1..Len(logs) :
        /\ logs[i].msg = "Video could not be saved"
        /\ logs[i].command = imageToVideoCommand

\* C1: the first accepted write fixes the frame size: an accepted write has a
\* composed image of the recorded size, the recorded size never changes once
\* a write was accepted, and a later write whose composed image has another
\* size ends in the resolution error, writes no frame (no image saved, nothing
\* handed to the encoder, counter as it was) and leaves the size as it was.
C1_FrameSizeFixed ==
    [][WriteStep =>
        /\ lastResult' = "ok" => mCvSize' = lastComposed'
        /\ acceptedCalls # <<>> => mCvSize' = mCvSize
        /\ (acceptedCalls # <<>> /\ lastComposed' # NoImage /\ lastComposed' # mCvSize) =>
              /\ lastResult' = "sizeMismatch"
              /\ UNCHANGED <<mCvSize, mImageSaverCounter, images, encoded, destFile>>
      ]_vars

\* a write of another size was refused after a write was accepted
C1_Witness ==
    /\ acceptedCalls # <<>>
    /\ nCalls > acceptedCalls[1]
    /\ lastComposed # NoImage
    /\ lastComposed # mCvSize
    /\ lastResult = "sizeMismatch"

\* C2: the teardown of an mp4 session that buffered no frame runs no command
\* (no mux, no removal, no audio merge, no move) and changes no file.
C2_EmptyTeardownIsNoOp ==
    (phase = "closed" /\ mUseFfmpeg /\ mImageSaverCounter = 0) =>
        /\ ~WasRun(imageToVideoCommand)
        /\ ~WasRun(removeCommand)
        /\ ~WasRun(audioCommand)
        /\ ~WasRun(moveCommand)
        /\ destFile = NoFile
        /\ ~tempOutput

\* C3: with an audio source and frames buffered, a mux that ends with a
\* status other than 0 is reported with the mux command, the temporary folder
\* stays with its images, and the audio command is not run.
C3_FailedMuxSkipsAudio ==
    (phase = "closed" /\ mUseFfmpeg /\ mAddAudioFromThisVideo # ""
        /\ mImageSaverCounter >= 1 /\ ExitOf(imageToVideoCommand) > 0) =>
        /\ VideoReported
        /\ tempDir
        /\ Cardinality(images) = mImageSaverCounter
        /\ ~WasRun(audioCommand)

\* C4 as stated: after N >= 1 accepted writes and the teardown, a mux that
\* ended with status 0 leaves no temporary folder; a mux that did not leaves
\* the folder with its N images, and the removal is not run.
C4_Original ==
    (phase = "closed" /\ mUseFfmpeg /\ Len(acceptedCalls) >= 1) =>
        /\ ExitOf(imageToVideoCommand) = 0 => ~tempDir
        /\ ExitOf(imageToVideoCommand) > 0 =>
              /\ tempDir
              /\ Cardinality(images) = Len(acceptedCalls)
              /\ ~WasRun(removeCommand)

\* C4 as amended: after N >= 1 accepted writes and the teardown, a mux that
\* ended with status 0 is followed by the removal command, and the temporary
\* folder is gone if that command ended with status 0 too; a mux that did not
\* end with status 0 leaves the folder with its N images, and the removal is
\* not run.
C4_TempFolderAfterTeardown ==
    (phase = "closed" /\ mUseFfmpeg /\ Len(acceptedCalls) >= 1) =>
        /\ WasRun(imageToVideoCommand)
        /\ ExitOf(imageToVideoCommand) = 0 =>
              /\ WasRun(removeCommand)
              /\ ExitOf(removeCommand) = 0 => ~tempDir
        /\ ExitOf(imageToVideoCommand) > 0 =>
              /\ tempDir
              /\ Cardinality(images) = Len(acceptedCalls)
              /\ ~WasRun(removeCommand)

\* the teardown after an accepted write, with a mux and a removal that ended well
C4_Witness ==
    /\ phase = "closed"
    /\ mUseFfmpeg
    /\ Len(acceptedCalls) >= 1
    /\ ExitOf(imageToVideoCommand) = 0
    /\ ExitOf(removeCommand) = 0
    /\ ~tempDir

\* s comes before t in the order of the file names (s and t of one length)
NameBefore(s, t) ==
    \E i \in 1..Len(s) :
        /\ s[i] < t[i]
        /\ \A j \in 1..(i - 1) : s[j] = t[j]

\* the image saved under the name of the number k
ImageNamed(k) == CHOOSE f \in images : f.name = toFixedLengthString(k, NameLength)

\* C5: in an mp4 session the counter starts at 0, goes up by one with each
\* accepted write and stays with each refused one; while the session lives the
\* saved images are those of the numbers 0..counter-1, one each, the k-th
\* accepted frame under the number k-1, and the order of the names is the
\* order of the calls.
C5_CounterNamesImages ==
    /\ [](phase = "new" => mImageSaverCounter = 0)
    /\ []((phase = "open" /\ mUseFfmpeg) =>
            /\ mImageSaverCounter = Len(acceptedCalls)
            /\ Cardinality(images) = mImageSaverCounter
            /\ \A k \in 1..mImageSaverCounter :
                  /\ \E f \in images : f.name = toFixedLengthString(k - 1, NameLength)
                  /\ Len(ImageNamed(k - 1).name) = NameLength
                  /\ ImageNamed(k - 1).call = acceptedCalls[k]
            /\ \A f, g \in images : f.call < g.call <=> NameBefore(f.name, g.name))
    /\ [][(WriteStep /\ mUseFfmpeg) =>
            mImageSaverCounter' =
                IF lastResult' = "ok" THEN mImageSaverCounter + 1 ELSE mImageSaverCounter
         ]_vars

\* three frames were accepted, with a refused call between them
C5_Witness ==
    /\ phase = "open"
    /\ mUseFfmpeg
    /\ mImageSaverCounter = 2
    /\ nCalls = 3
    /\ acceptedCalls = <<1, 3>>

\* the results of write() that are input errors
InputErrors == {"emptyList", "emptyFrame", "sizeMismatch"}

\* C6: a write that ends in an input error leaves the session as it was: the
\* started flag, the size, the counter, the writer, the ImageSaver and the
\* saved images.
C6_InputErrorChangesNothing ==
    [][(WriteStep /\ lastResult' \in InputErrors) =>
          UNCHANGED <<mVideoStarted, mCvSize, mImageSaverCounter, mVideoWriter,
                      upImageSaver, tempDir, images, encoded>>
      ]_vars

\* C7: a first write of frames that are not empty and of one height records
\* the size of the composed image (the sum of the widths, the shared height)
\* and is accepted; the open of the backend is taken to succeed.
C7_FirstWriteRecordsComposedSize ==
    (phase = "open" /\ nCalls = 1 /\ lastComposed # NoImage /\ lastResult # "openError") =>
        /\ mCvSize = lastComposed
        /\ lastResult = "ok"

\* the conditions C8 names
C8_NamedConditions ==
    \/ mFps <= 0
    \/ mUseFfmpeg /\ ~ffmpegInstalled
    \/ mAddAudioFromThisVideo # "" /\ ~mUseFfmpeg

\* C8 as stated: the construction fails if and only if the frame rate is <= 0,
\* or the destination is an mp4 and ffmpeg is missing, or an audio path is
\* given and the destination is no mp4.
C8_Original ==
    phase # "new" => (phase = "failed" <=> C8_NamedConditions)

\* C8 as amended: the construction fails if and only if one of the three
\* conditions holds or the destination is an mp4 and the build is for Windows;
\* it fails before any frame is written, and no write follows it.
C8_ConstructionFails ==
    /\ phase # "new" =>
          ((phase = "failed" /\ constructError # "none")
              <=> (C8_NamedConditions \/ (mUseFfmpeg /\ isWin32)))
    /\ phase = "failed" =>
          /\ nCalls = 0
          /\ ~mVideoStarted
          /\ images = {}
          /\ encoded = <<>>
          /\ ~ENABLED Write
          /\ ~ENABLED Teardown

\* the construction failed for the audio path alone
C8_Witness ==
    /\ phase = "failed"
    /\ mFps > 0
    /\ ~mUseFfmpeg
    /\ mAddAudioFromThisVideo # ""

\* C9: isOpened() is false before the first write; in an mp4 session it is
\* true exactly when the session has started, which is when the ImageSaver
\* has been made; otherwise it is true exactly when the writer is open.
C9_IsOpened ==
    /\ nCalls = 0 => ~isOpened
    /\ mUseFfmpeg => ((isOpened <=> mVideoStarted) /\ (mVideoStarted <=> upImageSaver))
    /\ ~mUseFfmpeg => (isOpened <=> mVideoWriter)

\* an mp4 session that has started
C9_Witness ==
    /\ phase = "open"
    /\ mUseFfmpeg
    /\ mVideoStarted
    /\ isOpened

\* the pipeline buffer is active: the ImageSaver is made and its folder is there
BufferActive == upImageSaver /\ tempDir

\* C10 as stated: once the session has started, exactly one of the open writer
\* and the active buffer holds: the buffer for an mp4, the writer otherwise.
C10_Original ==
    (phase = "open" /\ mVideoStarted) =>
        /\ mUseFfmpeg => (BufferActive /\ ~mVideoWriter)
        /\ ~mUseFfmpeg => (mVideoWriter /\ ~BufferActive)

\* C10 as amended: once the session has started, never both hold: for an mp4
\* the buffer is active and the writer is not open; otherwise there is no
\* buffer, and the writer is open unless openVideo() failed in the first
\* write, when neither holds.
C10_BackendOfStrategy ==
    (phase = "open" /\ mVideoStarted) =>
        /\ mUseFfmpeg => (BufferActive /\ ~mVideoWriter)
        /\ ~mUseFfmpeg =>
              /\ ~upImageSaver
              /\ ~tempDir
              /\ Len(openResults) = 1
              /\ mVideoWriter <=> openResults[1]

\* a started session whose writer failed to open
C10_Witness ==
    /\ phase = "open"
    /\ mVideoStarted
    /\ ~mUseFfmpeg
    /\ openResults = <<FALSE>>
    /\ ~mVideoWriter
    /\ ~BufferActive

\* the report of the failed audio step: its message with the text of the
\* audio command
AudioReported ==
    \E i \in 1..Len(logs) :
        /\ logs[i].msg = "Video could not be saved with audio"
        /\ logs[i].command = audioCommand
        /\ logs[i].code # 0

\* the video without sound that a mux of all the buffered images leaves
SilentVideo == [video |-> "muxed", frames |-> Len(acceptedCalls), audio |-> FALSE]

\* C11 as stated: when the audio command is run at teardown, a status of 0
\* has the destination replaced by the merged file (the move is run); a status
\* other than 0 has the move not run, the silent video of a mux that ended
\* well still at the destination, and the failure reported with the audio
\* command.
C11_Original ==
    (phase = "closed" /\ WasRun(audioCommand)) =>
        /\ ExitOf(audioCommand) = 0 =>
              /\ WasRun(moveCommand)
              /\ destFile = [SilentVideo EXCEPT !.audio = TRUE]
        /\ ExitOf(audioCommand) > 0 =>
              /\ ~WasRun(moveCommand)
              /\ ExitOf(imageToVideoCommand) = 0 => destFile = SilentVideo
              /\ AudioReported

\* C11 as amended: when the audio command is run at teardown, a status of 0
\* has the move run, and the destination replaced by the merged file if the
\* move ends with status 0 too; if the move does not, the silent video stays
\* at the destination, the merged file stays beside it, and the failure is
\* reported with the audio command. A status of the audio command other than
\* 0 has the move not run, the silent video of a mux that ended well still at
\* the destination, and the failure reported with the audio command.
C11_AudioMerge ==
    (phase = "closed" /\ WasRun(audioCommand)) =>
        /\ mAddAudioFromThisVideo # ""
        /\ ExitOf(audioCommand) = 0 =>
              /\ WasRun(moveCommand)
              /\ ExitOf(moveCommand) = 0 =>
                    /\ destFile = [SilentVideo EXCEPT !.audio = TRUE]
                    /\ ~tempOutput
                    /\ ~AudioReported
              /\ ExitOf(moveCommand) > 0 =>
                    /\ destFile = SilentVideo
                    /\ tempOutput
                    /\ AudioReported
        /\ ExitOf(audioCommand) > 0 =>
              /\ ~WasRun(moveCommand)
              /\ ExitOf(imageToVideoCommand) = 0 => destFile = SilentVideo
              /\ AudioReported

\* the merged file has taken the place of the silent video of two frames
C11_Witness ==
    /\ phase = "closed"
    /\ Len(acceptedCalls) = 2
    /\ ExitOf(audioCommand) = 0
    /\ ExitOf(moveCommand) = 0
    /\ destFile = [SilentVideo EXCEPT !.audio = TRUE]

\* the ImageSaver objects made: one log line goes with each
SaversMade ==
    Cardinality({i \in 1..Len(logs) :
        logs[i].msg = "Temporarily saving video frames as JPG images in"})

\* C12: the backend is set up at most once in a session, by the write that
\* starts it: openVideo() is called, or the ImageSaver made, only in a step
\* that takes the session from not started to started. When the writer did
\* not open in the first write, that write fails, and every later write fails
\* too, without another call of openVideo() and without a frame encoded.
C12_BackendSetUpOnce ==
    /\ [](Len(openResults) + SaversMade <= 1)
    /\ [](openResults = <<FALSE>> =>
            /\ lastResult # "ok"
            /\ ~mVideoWriter
            /\ encoded = <<>>
            /\ acceptedCalls = <<>>
            /\ destFile = NoFile)
    /\ [][WriteStep =>
            /\ (openResults' # openResults \/ logs' # logs \/ upImageSaver' # upImageSaver
                    \/ mVideoWriter' # mVideoWriter)
                  => (~mVideoStarted /\ mVideoStarted')
            /\ (~mVideoStarted /\ mVideoStarted') =>
                  Len(openResults') + Cardinality({i \in 1..Len(logs') :
                      logs'[i].msg = "Temporarily saving video frames as JPG images in"}) = 1
            /\ openResults = <<FALSE>> =>
                  /\ lastResult' \in {"emptyList", "emptyFrame", "notOpened"}
                  /\ openResults' = openResults
                  /\ encoded' = encoded
         ]_vars

\* a write after the one in which the writer did not open
C12_Witness ==
    /\ phase = "open"
    /\ openResults = <<FALSE>>
    /\ nCalls >= 2
    /\ lastResult = "notOpened"

\* a log line with the message, the command and the status
LogHas(msg, command, code) ==
    \E i \in 1..Len(logs) : logs[i] = Logged(msg, command, code)

\* C13: the teardown runs to its end whatever the commands return: it can be
\* taken in every state of a live session, it ends the session in one step,
\* and every status other than 0 of one of its commands is in the log: that
\* of the mux or of the removal in the line on the video, that of the audio
\* command or of the move in the line on the audio.
C13_TeardownCompletes ==
    /\ phase = "open" => ENABLED Teardown
    /\ phase = "closed" =>
          /\ \A i \in 1..Len(cmds) :
                (cmds[i].command \in {imageToVideoCommand, removeCommand} /\ cmds[i].exit # 0)
                    => LogHas("Video could not be saved", imageToVideoCommand, cmds[i].exit)
          /\ \A i \in 1..Len(cmds) :
                (cmds[i].command \in {audioCommand, moveCommand} /\ cmds[i].exit # 0)
                    => LogHas("Video could not be saved with audio", audioCommand, cmds[i].exit)
          /\ mUseFfmpeg => WasRun(imageToVideoCommand)
          /\ (mUseFfmpeg /\ mAddAudioFromThisVideo # "") => WasRun(audioCommand)

\* a teardown in which the mux ended well, and the removal and the audio
\* command did not
C13_Witness ==
    /\ phase = "closed"
    /\ ExitOf(imageToVideoCommand) = 0
    /\ ExitOf(removeCommand) > 0
    /\ ExitOf(audioCommand) > 0

\* C14: the construction makes no file: after it the temporary folder, the
\* destination and the merged file are not there, and the folder is not there
\* before the session starts; for an mp4 the path of the folder is recorded
\* (the destination without its extension, with RANDOM_TEXT); with a frame
\* rate > 0, no audio path and a destination that is no mp4 the construction
\* succeeds and runs no command.
C14_ConstructionMakesNoFile ==
    /\ (phase \in {"open", "failed"} /\ nCalls = 0) =>
          /\ ~tempDir
          /\ images = {}
          /\ encoded = <<>>
          /\ destFile = NoFile
          /\ ~tempOutput
    /\ ~mVideoStarted => (~tempDir /\ ~upImageSaver)
    /\ (phase # "new" /\ mUseFfmpeg) =>
          /\ Len(mTempImageFolder) > 0
          /\ mTempImageFolder =
                Append(SubSeq(mVideoSaverPath, 1, Len(mVideoSaverPath) - 4), RANDOM_TEXT)
    /\ (phase # "new" /\ ~mUseFfmpeg /\ mFps > 0 /\ mAddAudioFromThisVideo = "") =>
          /\ phase # "failed"
          /\ cmds = <<>>

\* a session for a destination that is no mp4, before its first write
C14_Witness ==
    /\ phase = "open"
    /\ ~mUseFfmpeg
    /\ nCalls = 0
    /\ cmds = <<>>
    /\ destFile = NoFile

\* an mp4 session before its first write: the path is recorded, the folder
\* is not there
C14_WitnessPath ==
    /\ phase = "open"
    /\ mUseFfmpeg
    /\ nCalls = 0
    /\ mTempImageFolder # <<>>
    /\ ~tempDir

\* how often the command was run
TimesRun(command) == Cardinality({i \in 1..Len(cmds) : cmds[i].command = command})

\* C15: no write runs the mux command, the removal or the audio command:
\* while the session lives none of them has been run. After the teardown of
\* an mp4 session with N >= 1 accepted writes the mux command has been run
\* once, on the folder of the session, at the frame rate of the session, and
\* it has read the N images; the removal and the audio command have been run
\* at most once each.
C15_MuxOnceAtTeardown ==
    /\ phase \in {"new", "open", "failed"} =>
          \A i \in 1..Len(cmds) : cmds[i].command = ffmpegHelpCommand
    /\ (phase = "closed" /\ mUseFfmpeg /\ Len(acceptedCalls) >= 1) =>
          /\ TimesRun(imageToVideoCommand) = 1
          /\ \A i \in 1..Len(cmds) :
                cmds[i].command.tool = imageToVideoCommand.tool =>
                    /\ cmds[i].read = Len(acceptedCalls)
                    /\ cmds[i].read = mImageSaverCounter
                    /\ cmds[i].command.fps = mFps
                    /\ cmds[i].command.src = mTempImageFolder
                    /\ cmds[i].command.out = mVideoSaverPath
          /\ TimesRun(removeCommand) <= 1
          /\ TimesRun(audioCommand) <= 1
          /\ TimesRun(moveCommand) <= 1
          /\ Len(cmds) <= 5

\* the teardown after three accepted writes: the mux has read three images
C15_Witness ==
    /\ phase = "closed"
    /\ mUseFfmpeg
    /\ Len(acceptedCalls) = 3
    /\ mFps = 30
    /\ \E i \in 1..Len(cmds) :
          /\ cmds[i].command = imageToVideoCommand
          /\ cmds[i].read = 3

\* the place of the command among the system() calls, 0 if it was not run
PlaceOf(command) ==
    IF WasRun(command)
    THEN CHOOSE i \in 1..Len(cmds) : cmds[i].command = command
    ELSE 0

\* C16: the teardown of an mp4 session runs its commands in the order mux,
\* removal, audio command, move, each after the one before it has returned:
\* the mux is the first, the removal is run only right after a mux that ended
\* with status 0, the audio command after both, and the move only right after
\* an audio command that ended with status 0.
C16_TeardownOrder ==
    (phase = "closed" /\ mUseFfmpeg) =>
        /\ WasRun(imageToVideoCommand)
        /\ \A i \in 1..Len(cmds) :
              cmds[i].command # ffmpegHelpCommand => PlaceOf(imageToVideoCommand) <= i
        /\ WasRun(removeCommand) =>
              /\ ExitOf(imageToVideoCommand) = 0
              /\ PlaceOf(removeCommand) = PlaceOf(imageToVideoCommand) + 1
        /\ WasRun(audioCommand) =>
              /\ PlaceOf(imageToVideoCommand) < PlaceOf(audioCommand)
              /\ PlaceOf(removeCommand) < PlaceOf(audioCommand)
        /\ WasRun(moveCommand) =>
              /\ ExitOf(audioCommand) = 0
              /\ PlaceOf(moveCommand) = PlaceOf(audioCommand) + 1
              /\ PlaceOf(moveCommand) = Len(cmds)

\* a teardown that ran all four commands
C16_Witness ==
    /\ phase = "closed"
    /\ mUseFfmpeg
    /\ WasRun(removeCommand)
    /\ WasRun(moveCommand)
    /\ PlaceOf(imageToVideoCommand) < PlaceOf(removeCommand)
    /\ PlaceOf(removeCommand) < PlaceOf(audioCommand)
    /\ PlaceOf(audioCommand) < PlaceOf(moveCommand)

\* C17: the strategy is chosen by the constructor and stays: once the object
\* is made mUseFfmpeg does not change. A session that is no mp4 session keeps
\* the counter at 0, never has an ImageSaver, a temporary folder or an image
\* in it, and runs no command; its teardown changes nothing. In an mp4 session
\* openVideo() is never called, the writer is never open and no image is
\* handed to it.
C17_StrategiesDoNotMix ==
    /\ [][phase # "new" => mUseFfmpeg' = mUseFfmpeg]_vars
    /\ []((phase # "new" /\ ~mUseFfmpeg) =>
            /\ mImageSaverCounter = 0
            /\ ~upImageSaver
            /\ ~tempDir
            /\ images = {}
            /\ ~tempOutput
            /\ mTempImageFolder = <<>>
            /\ cmds = <<>>
            /\ logs = <<>>)
    /\ [](mUseFfmpeg =>
            /\ openResults = <<>>
            /\ ~mVideoWriter
            /\ encoded = <<>>
            /\ destFile.video # "encoder")
    /\ [][(phase = "open" /\ phase' = "closed" /\ ~mUseFfmpeg) =>
            UNCHANGED <<files, cmds, logs, session>>
         ]_vars

\* the end of a session that is no mp4 session, with two frames encoded
C17_Witness ==
    /\ phase = "closed"
    /\ ~mUseFfmpeg
    /\ Len(encoded) = 2
    /\ destFile = [video |-> "encoder", frames |-> 2, audio |-> FALSE]
    /\ cmds = <<>>

\* the end of an mp4 session with two images saved and the mux failed
C17_WitnessBuffered ==
    /\ phase = "closed"
    /\ mUseFfmpeg
    /\ Cardinality(images) = 2
    /\ encoded = <<>>

\* the log line on the removed folder
RemovedLogged ==
    \E i \in 1..Len(logs) : logs[i].msg = "Video saved and temporary image folder removed."

\* C18: at the teardown of an mp4 session the line that the video could not
\* be saved, with the mux command, is logged exactly when the mux ended with a
\* status other than 0, or ended with 0 and the removal did not; it carries
\* the status of the command that failed. The line that the folder was removed
\* is logged exactly when the mux ended with status 0, whatever the removal
\* returned.
C18_VideoReport ==
    (phase = "closed" /\ mUseFfmpeg) =>
        /\ VideoReported <=>
              \/ ExitOf(imageToVideoCommand) > 0
              \/ ExitOf(imageToVideoCommand) = 0 /\ ExitOf(removeCommand) > 0
        /\ ExitOf(imageToVideoCommand) > 0 =>
              LogHas("Video could not be saved", imageToVideoCommand,
                     ExitOf(imageToVideoCommand))
        /\ ExitOf(removeCommand) > 0 =>
              LogHas("Video could not be saved", imageToVideoCommand, ExitOf(removeCommand))
        /\ RemovedLogged <=> ExitOf(imageToVideoCommand) = 0

\* the mux ended well, the removal did not: both lines are in the log, and
\* the folder is still there
C18_Witness ==
    /\ phase = "closed"
    /\ mUseFfmpeg
    /\ ExitOf(imageToVideoCommand) = 0
    /\ ExitOf(removeCommand) > 0
    /\ VideoReported
    /\ RemovedLogged
    /\ tempDir

====
